---------------------------- MODULE Spec2Model ----------------------------
(***************************************************************************)
(* A model of hocr/text.py: text extraction from hOCR pages, paragraph     *)
(* reconstruction (hocr_paragraphs) and the XML / plaintext page offset    *)
(* indexers.                                                               *)
(*                                                                         *)
(* Strings are sequences of Unicode code points, byte strings sequences of *)
(* byte values.  A word is [text, confidence], a line [words], a paragraph *)
(* [lines], exactly the dictionaries the functions of text.py read.        *)
(***************************************************************************)
EXTENDS Integers, Sequences, FiniteSets, TLC

(***************************************************************************)
(* Bounds of the model.                                                    *)
(***************************************************************************)
\* the size of the document fed to the text side: its pages, paragraphs, lines and
\* words, and one more for each page of WideDimensions
MaxNodes == 8

\* the elements of the XML document fed to the offset indexers
MaxElements == 3

\* an off-by-one threshold
MIN_WORD_CONF_low == 75 - 1

MIN_WORD_CONF == 75

(***************************************************************************)
(* Strings.                                                                *)
(***************************************************************************)
SP == <<32>>
NL == <<10>>
Hello == <<72, 101, 108, 108, 111>>
World == <<87, 111, 114, 108, 100>>
\* "e" with an acute accent, U+00E9: two bytes in UTF-8
EAcute == <<233>>

\* str.isspace() for the code points below U+0100
IsSpace(c) == c \in {9, 10, 11, 12, 13, 28, 29, 30, 31, 32, 133, 160}

RECURSIVE lstrip(_)
lstrip(s) ==
    IF s # <<>> /\ IsSpace(Head(s)) THEN lstrip(Tail(s)) ELSE s

RECURSIVE rstrip(_)
rstrip(s) ==
    IF s # <<>> /\ IsSpace(s[Len(s)]) THEN rstrip(SubSeq(s, 1, Len(s) - 1)) ELSE s

\* str.strip()
strip(s) == rstrip(lstrip(s))

\* the UTF-8 encoding of one code point
EncodeChar(c) ==
    IF c < 128 THEN <<c>>
    ELSE IF c < 2048 THEN <<192 + (c \div 64), 128 + (c % 64)>>
    ELSE IF c < 65536
         THEN <<224 + (c \div 4096), 128 + ((c \div 64) % 64), 128 + (c % 64)>>
         ELSE <<240 + (c \div 262144), 128 + ((c \div 4096) % 64),
                128 + ((c \div 64) % 64), 128 + (c % 64)>>

\* str.encode('utf-8')
RECURSIVE encode(_)
encode(s) ==
    IF s = <<>> THEN <<>> ELSE EncodeChar(Head(s)) \o encode(Tail(s))

\* bytes.decode('utf-8') of a valid encoding
RECURSIVE decode(_)
decode(b) ==
    IF b = <<>> THEN <<>>
    ELSE IF b[1] < 128 THEN <<b[1]>> \o decode(Tail(b))
    ELSE IF b[1] < 224
         THEN <<(b[1] - 192) * 64 + (b[2] - 128)>> \o decode(SubSeq(b, 3, Len(b)))
    ELSE IF b[1] < 240
         THEN <<(b[1] - 224) * 4096 + (b[2] - 128) * 64 + (b[3] - 128)>>
              \o decode(SubSeq(b, 4, Len(b)))
         ELSE <<(b[1] - 240) * 262144 + (b[2] - 128) * 4096
                + (b[3] - 128) * 64 + (b[4] - 128)>>
              \o decode(SubSeq(b, 5, Len(b)))

(***************************************************************************)
(* hocr_page_text, hocr_paragraph_text, get_hocr_words.                    *)
(***************************************************************************)
\* the page's paragraph list, as the parser collaborator returns it
hocr_page_to_word_data(page) == page.paragraphs

hocr_page_to_word_data_fast(page) == page.paragraphs

hocr_page_get_dimensions(page) == page.dimensions

\* hocr_page_text, the loop over line['words']
RECURSIVE page_text_words(_, _, _)
page_text_words(words, line_words, block_data) ==
    IF words = <<>> THEN [line_words |-> line_words, block_data |-> block_data]
    ELSE LET word == Head(words) IN
         IF word.confidence < MIN_WORD_CONF
         THEN page_text_words(Tail(words), line_words, block_data)
         ELSE page_text_words(Tail(words), line_words \o word.text \o SP, TRUE)

\* page_text_lines without the space before each line
RECURSIVE page_text_lines_no_space(_, _, _)
page_text_lines_no_space(lines, text, block_data) ==
    IF lines = <<>> THEN [text |-> text, block_data |-> block_data]
    ELSE LET w == page_text_words(Head(lines).words, <<>>, block_data)
             line_words == encode(strip(w.line_words))
         IN  page_text_lines_no_space(Tail(lines),
                                      IF line_words # <<>>
                                      THEN text \o decode(line_words) ELSE text,
                                      w.block_data)

\* hocr_page_text, the loop over paragraph['lines']
RECURSIVE page_text_lines(_, _, _)
page_text_lines(lines, text, block_data) ==
    IF lines = <<>> THEN [text |-> text, block_data |-> block_data]
    ELSE LET w == page_text_words(Head(lines).words, <<>>, block_data)
             line_words == encode(strip(w.line_words))
         IN  page_text_lines(Tail(lines),
                             IF line_words # <<>>
                             THEN text \o SP \o decode(line_words) ELSE text,
                             w.block_data)

\* hocr_page_text, the loop over word_data
RECURSIVE page_text_paragraphs(_, _)
page_text_paragraphs(word_data, text) ==
    IF word_data = <<>> THEN text
    ELSE LET l == page_text_lines(Head(word_data).lines, text, FALSE) IN
         page_text_paragraphs(Tail(word_data),
                              IF l.block_data THEN l.text \o NL ELSE l.text)

hocr_page_text(page) == page_text_paragraphs(hocr_page_to_word_data(page), <<>>)

\* paragraph_text_words without the space after each word
RECURSIVE paragraph_text_words_no_space(_, _, _)
paragraph_text_words_no_space(words, line_words, block_data) ==
    IF words = <<>> THEN [line_words |-> line_words, block_data |-> block_data]
    ELSE LET word == Head(words) IN
         IF word.confidence < MIN_WORD_CONF
         THEN paragraph_text_words_no_space(Tail(words), line_words, block_data)
         ELSE paragraph_text_words_no_space(Tail(words), line_words \o word.text, TRUE)

\* hocr_paragraph_text, the loop over line['words']
RECURSIVE paragraph_text_words(_, _, _)
paragraph_text_words(words, line_words, block_data) ==
    IF words = <<>> THEN [line_words |-> line_words, block_data |-> block_data]
    ELSE LET word == Head(words) IN
         IF word.confidence < MIN_WORD_CONF
         THEN paragraph_text_words(Tail(words), line_words, block_data)
         ELSE paragraph_text_words(Tail(words), line_words \o word.text \o SP, TRUE)

\* hocr_paragraph_text, the loop over paragraph['lines']
RECURSIVE paragraph_text_lines(_, _, _)
paragraph_text_lines(lines, data, block_data) ==
    IF lines = <<>> THEN <<data, block_data>>
    ELSE LET w == paragraph_text_words(Head(lines).words, <<>>, block_data) IN
         paragraph_text_lines(Tail(lines), data \o w.line_words, w.block_data)

hocr_paragraph_text(paragraph) == paragraph_text_lines(paragraph.lines, <<>>, FALSE)

\* get_hocr_words, the loop over line['words']
RECURSIVE get_words_words(_, _)
get_words_words(line_words, words) ==
    IF line_words = <<>> THEN words
    ELSE LET word == Head(line_words) IN
         IF word.confidence < MIN_WORD_CONF
         THEN get_words_words(Tail(line_words), words)
         ELSE get_words_words(Tail(line_words), Append(words, word))

\* get_hocr_words, the loop over paragraph['lines']
RECURSIVE get_words_lines(_, _)
get_words_lines(lines, words) ==
    IF lines = <<>> THEN words
    ELSE get_words_lines(Tail(lines), get_words_words(Head(lines).words, words))

get_hocr_words(paragraph) == get_words_lines(paragraph.lines, <<>>)

(***************************************************************************)
(* The documents fed to the text side: every tree of pages, paragraphs,    *)
(* lines and words of at most MaxNodes nodes over Words and Dimensions.    *)
(***************************************************************************)
Words ==
    { [text |-> Hello, confidence |-> 75],
      [text |-> World, confidence |-> 75],
      [text |-> EAcute, confidence |-> 75],
      [text |-> World, confidence |-> 74] }

\* The documents of hocr_paragraphs, which never looks into word['text'], are over
\* AsciiWords; those of hocr_get_plaintext_page_offsets, which measures the text,
\* over PlainWords.
AsciiWords == { w \in Words : w.text # EAcute }

PlainWords == { w \in Words : w.text # World \/ w.confidence < 75 }

\* (width, height) of a page
PlainDimensions == <<600, 800>>
WideDimensions == <<1200, 1600>>

\* the sequences of n words of W
WordSeqs[W \in {AsciiWords, PlainWords}, n \in 0..MaxNodes] ==
    IF n = 0 THEN {<<>>}
    ELSE {Append(s, w) : s \in WordSeqs[W, n - 1], w \in W}

\* the sequences of lines of n nodes in all (a line is one node, plus its words)
LineSeqs[W \in {AsciiWords, PlainWords}, n \in 0..MaxNodes] ==
    IF n = 0 THEN {<<>>}
    ELSE UNION { { <<[words |-> ws]>> \o r :
                     ws \in WordSeqs[W, k - 1], r \in LineSeqs[W, n - k] } : k \in 1..n }

\* the sequences of paragraphs of n nodes in all
ParagraphSeqs[W \in {AsciiWords, PlainWords}, n \in 0..MaxNodes] ==
    IF n = 0 THEN {<<>>}
    ELSE UNION { { <<[lines |-> ls]>> \o r :
                     ls \in LineSeqs[W, k - 1], r \in ParagraphSeqs[W, n - k] } : k \in 1..n }

\* the pages of k nodes, k >= 1: a page is one node, plus its paragraphs, plus one
\* when its dimensions are WideDimensions
PagesOfSize(W, k) ==
    { [paragraphs |-> ps, dimensions |-> PlainDimensions] : ps \in ParagraphSeqs[W, k - 1] }
    \cup
    (IF k < 2 THEN {}
     ELSE { [paragraphs |-> ps, dimensions |-> WideDimensions] :
              ps \in ParagraphSeqs[W, k - 2] })

PagePool == [k \in 1..MaxNodes |-> PagesOfSize(PlainWords, k)]

GenPagePool == [k \in 1..MaxNodes |-> PagesOfSize(AsciiWords, k)]

(***************************************************************************)
(* State.                                                                  *)
(*   call   the entry point under execution                                *)
(*   nodes  the nodes of the pages the page iterator has yielded so far    *)
(*   npages the number of pages the page iterator has yielded so far       *)
(*   src    the pages hocr_iter has yielded to hocr_paragraphs so far      *)
(*   gen    the frame of the hocr_paragraphs generator: its locals, where  *)
(*          it stands (pc) and the tuples it has yielded                   *)
(*   words  get_hocr_words of each yielded paragraph, taken by the         *)
(*          consumer before it resumes the generator                       *)
(*   plain  the frame of hocr_get_plaintext_page_offsets                   *)
(*   genF, wordsF, plainF                                                  *)
(*          the same calls run on the same document with every word of     *)
(*          confidence < 75 removed                                        *)
(***************************************************************************)
VARIABLES call, nodes, npages, src, gen, words, plain, genF, wordsF, plainF

(***************************************************************************)
(*   xml_file       the open hOCR file: its tags (data) and the position   *)
(*                  of the stream, in tags read                            *)
(*   xml_offsets    what the last call of hocr_get_xml_page_offsets on     *)
(*                  xml_file gave                                          *)
(*   xml_calls      the calls of hocr_get_xml_page_offsets made on         *)
(*                  xml_file: 0, 1, or 2 for two and more                  *)
(*   page_it        the pages hocr_page_iterator has still to yield        *)
(*   plain_offsets  what the last call of hocr_get_plaintext_page_offsets  *)
(*                  on xml_file gave                                       *)
(***************************************************************************)
VARIABLES xml_file, xml_offsets, xml_calls, page_it, plain_offsets

xmlvars == <<xml_file, xml_offsets, xml_calls, page_it, plain_offsets>>

textvars == <<call, nodes, npages, src, gen, words, plain, genF, wordsF, plainF>>

vars == <<textvars, xmlvars>>

NoPage == [paragraphs |-> <<>>, dimensions |-> <<0, 0>>]

\* no call made yet
NoResult == [status |-> "none", value |-> <<>>]

(***************************************************************************)
(* hocr_paragraphs.                                                        *)
(***************************************************************************)
\* text = '', ps = [], page_no = 0: the frame before the first next()
gen_init ==
    [pc |-> "pages", text |-> <<>>, ps |-> <<>>, page_no |-> 0,
     page_width |-> 0, page_height |-> 0, paragraphs |-> <<>>, yielded |-> <<>>]

\* for hocr_page in hocr_iter: the dimensions and the paragraph list of the page
gen_next_page(g, hocr_page) ==
    [g EXCEPT !.pc = "paragraphs",
              !.page_width = hocr_page_get_dimensions(hocr_page)[1],
              !.page_height = hocr_page_get_dimensions(hocr_page)[2],
              !.paragraphs = hocr_page_to_word_data_fast(hocr_page)]

\* extend_lines putting each paragraph's lines before those gathered so far
RECURSIVE extend_lines_front(_, _)
extend_lines_front(ps, lines) ==
    IF ps = <<>> THEN lines ELSE extend_lines_front(Tail(ps), Head(ps).lines \o lines)

\* new_paragraph['lines'].extend(p['lines']) for p in ps
RECURSIVE extend_lines(_, _)
extend_lines(ps, lines) ==
    IF ps = <<>> THEN lines ELSE extend_lines(Tail(ps), lines \o Head(ps).lines)

\* gen_paragraph without ps.append(paragraph) for a paragraph that is not ok
gen_paragraph_skip_pending(g) ==
    LET paragraph == Head(g.paragraphs)
        r == hocr_paragraph_text(paragraph)
        ptext == r[1]
        ok == r[2]
    IN  IF ~ok
        THEN [g EXCEPT !.text = @ \o ptext,
                       !.paragraphs = Tail(@)]
        ELSE LET ps == IF Len(g.ps) # 0 THEN Append(g.ps, paragraph) ELSE g.ps
                 new_paragraph == [lines |-> extend_lines(ps, <<>>)]
                 out == IF Len(g.ps) # 0 THEN new_paragraph ELSE paragraph
             IN  [g EXCEPT !.ps = ps,
                           !.paragraphs = Tail(@),
                           !.pc = "yield",
                           !.yielded = Append(@, [paragraph |-> out, text |-> ptext,
                                                  page_no |-> g.page_no,
                                                  page_width |-> g.page_width,
                                                  page_height |-> g.page_height])]

\* gen_paragraph without ps.append(paragraph) before the merge
gen_paragraph_pending_only(g) ==
    LET paragraph == Head(g.paragraphs)
        r == hocr_paragraph_text(paragraph)
        ptext == r[1]
        ok == r[2]
    IN  IF ~ok
        THEN [g EXCEPT !.text = @ \o ptext,
                       !.ps = Append(@, paragraph),
                       !.paragraphs = Tail(@)]
        ELSE LET new_paragraph == [lines |-> extend_lines(g.ps, <<>>)]
                 out == IF Len(g.ps) # 0 THEN new_paragraph ELSE paragraph
             IN  [g EXCEPT !.paragraphs = Tail(@),
                           !.pc = "yield",
                           !.yielded = Append(@, [paragraph |-> out, text |-> ptext,
                                                  page_no |-> g.page_no,
                                                  page_width |-> g.page_width,
                                                  page_height |-> g.page_height])]

\* one pass of the body of "for paragraph in paragraphs", up to continue or yield
gen_paragraph(g) ==
    LET paragraph == Head(g.paragraphs)
        r == hocr_paragraph_text(paragraph)
        ptext == r[1]
        ok == r[2]
    IN  IF ~ok
        THEN [g EXCEPT !.text = @ \o ptext,
                       !.ps = Append(@, paragraph),
                       !.paragraphs = Tail(@)]
        ELSE LET ps == IF Len(g.ps) # 0 THEN Append(g.ps, paragraph) ELSE g.ps
                 new_paragraph == [lines |-> extend_lines(ps, <<>>)]
                 out == IF Len(g.ps) # 0 THEN new_paragraph ELSE paragraph
             IN  [g EXCEPT !.ps = ps,
                           !.paragraphs = Tail(@),
                           !.pc = "yield",
                           !.yielded = Append(@, [paragraph |-> out, text |-> ptext,
                                                  page_no |-> g.page_no,
                                                  page_width |-> g.page_width,
                                                  page_height |-> g.page_height])]

\* gen_resume without ps = []
gen_resume_keep_ps(g) == [g EXCEPT !.pc = "paragraphs", !.text = <<>>]

\* the generator resumed after its yield: text = '', ps = []
gen_resume(g) == [g EXCEPT !.pc = "paragraphs", !.text = <<>>, !.ps = <<>>]

\* gen_end_page without page_no += 1
gen_end_page_no_advance(g) == [g EXCEPT !.pc = "pages"]

\* the paragraphs of the page are exhausted: page_no += 1
gen_end_page(g) == [g EXCEPT !.pc = "pages", !.page_no = @ + 1]

\* hocr_iter is exhausted: the generator returns
gen_stop(g) == [g EXCEPT !.pc = "done"]

(***************************************************************************)
(* hocr_get_plaintext_page_offsets.                                        *)
(***************************************************************************)
\* plain_init without page_bytes.append(0)
plain_init_no_zero ==
    [pc |-> "loop", page_bytes |-> <<>>, cursor |-> 0, page |-> NoPage,
     page_text |-> <<>>, result |-> <<>>]

\* page_bytes = [], cursor = 0, page_bytes.append(0)
plain_init ==
    [pc |-> "loop", page_bytes |-> <<0>>, cursor |-> 0, page |-> NoPage,
     page_text |-> <<>>, result |-> <<>>]

\* one pass of the body of "for page in page_it"
plain_iter(p, page) ==
    LET page_text == hocr_page_text(page)
        cursor == p.cursor + Len(page_text)
    IN  [p EXCEPT !.page = page,
                  !.page_text = page_text,
                  !.cursor = cursor,
                  !.page_bytes = Append(@, cursor)]

\* list(zip(l[:-1], l[1:]))
zip_consecutive(l) == [i \in 1..(IF Len(l) = 0 THEN 0 ELSE Len(l) - 1) |-> <<l[i], l[i + 1]>>]

\* page_it is exhausted: page_bytes = list(zip(page_bytes[:-1], page_bytes[1:]))
plain_return(p) ==
    [p EXCEPT !.pc = "returned", !.result = zip_consecutive(p.page_bytes)]

(***************************************************************************)
(* The same input with every word of confidence < 75 removed.              *)
(***************************************************************************)
KeepWord(word) == word.confidence >= 75

FilterLine(line) == [words |-> SelectSeq(line.words, KeepWord)]

FilterParagraph(paragraph) ==
    [lines |-> [i \in 1..Len(paragraph.lines) |-> FilterLine(paragraph.lines[i])]]

FilterPage(page) ==
    [page EXCEPT !.paragraphs = [i \in 1..Len(@) |-> FilterParagraph(@[i])]]

(***************************************************************************)
(* Actions of the text side.                                               *)
(***************************************************************************)
TextInit ==
    /\ call \in {"hocr_paragraphs", "hocr_get_plaintext_page_offsets"}
    /\ nodes = 0
    /\ npages = 0
    /\ src = <<>>
    /\ gen = gen_init
    /\ genF = gen_init
    /\ words = <<>>
    /\ wordsF = <<>>
    /\ plain = plain_init
    /\ plainF = plain_init
    /\ xml_file = [data |-> <<>>, pos |-> 0]
    /\ xml_offsets = NoResult
    /\ xml_calls = 0
    /\ page_it = <<>>
    /\ plain_offsets = NoResult

\* hocr_iter yields the next page
GenNextPage ==
    /\ call = "hocr_paragraphs"
    /\ gen.pc = "pages"
    /\ \E k \in 1..(MaxNodes - nodes) : \E hocr_page \in GenPagePool[k] :
         /\ nodes' = nodes + k
         /\ npages' = npages + 1
         /\ src' = Append(src, hocr_page)
         /\ gen' = gen_next_page(gen, hocr_page)
         /\ genF' = gen_next_page(genF, FilterPage(hocr_page))
    /\ UNCHANGED <<call, words, wordsF, plain, plainF, xmlvars>>

GenParagraph ==
    /\ call = "hocr_paragraphs"
    /\ gen.pc = "paragraphs"
    /\ gen.paragraphs # <<>>
    /\ gen' = gen_paragraph(gen)
    /\ genF' = gen_paragraph(genF)
    /\ UNCHANGED <<call, nodes, npages, src, words, wordsF, plain, plainF, xmlvars>>

\* the consumer takes get_hocr_words of the yielded paragraph and calls next()
GenResume ==
    /\ call = "hocr_paragraphs"
    /\ gen.pc = "yield"
    /\ words' = Append(words, get_hocr_words(gen.yielded[Len(gen.yielded)].paragraph))
    /\ wordsF' = Append(wordsF, get_hocr_words(genF.yielded[Len(genF.yielded)].paragraph))
    /\ gen' = gen_resume(gen)
    /\ genF' = gen_resume(genF)
    /\ UNCHANGED <<call, nodes, npages, src, plain, plainF, xmlvars>>

GenEndPage ==
    /\ call = "hocr_paragraphs"
    /\ gen.pc = "paragraphs"
    /\ gen.paragraphs = <<>>
    /\ gen' = gen_end_page(gen)
    /\ genF' = gen_end_page(genF)
    /\ UNCHANGED <<call, nodes, npages, src, words, wordsF, plain, plainF, xmlvars>>

GenStop ==
    /\ call = "hocr_paragraphs"
    /\ gen.pc = "pages"
    /\ gen' = gen_stop(gen)
    /\ genF' = gen_stop(genF)
    /\ UNCHANGED <<call, nodes, npages, src, words, wordsF, plain, plainF, xmlvars>>

\* page_it yields the next page
PlainIter ==
    /\ call = "hocr_get_plaintext_page_offsets"
    /\ plain.pc = "loop"
    /\ \E k \in 1..(MaxNodes - nodes) : \E page \in PagePool[k] :
         /\ nodes' = nodes + k
         /\ npages' = npages + 1
         /\ plain' = plain_iter(plain, page)
         /\ plainF' = plain_iter(plainF, FilterPage(page))
    /\ UNCHANGED <<call, src, gen, genF, words, wordsF, xmlvars>>

PlainReturn ==
    /\ call = "hocr_get_plaintext_page_offsets"
    /\ plain.pc = "loop"
    /\ plain' = plain_return(plain)
    /\ plainF' = plain_return(plainF)
    /\ UNCHANGED <<call, nodes, npages, src, gen, genF, words, wordsF, xmlvars>>

TextNext ==
    \/ GenNextPage
    \/ GenParagraph
    \/ GenResume
    \/ GenEndPage
    \/ GenStop
    \/ PlainIter
    \/ PlainReturn

Spec == TextInit /\ [][TextNext]_vars

(***************************************************************************)
(* The XML document: a sequence of start and end tags.  A start tag has a  *)
(* name and attributes (a set of <<name, value>> pairs); the start tag of  *)
(* an ocr_page carries the page the page iterator yields for it.           *)
(***************************************************************************)
StartTag(name, attrs, page) ==
    [kind |-> "start", name |-> name, attrs |-> attrs, page |-> page]

EndTag(name) == [kind |-> "end", name |-> name, attrs |-> {}, page |-> NoPage]

\* the page of every ocr_page element of the XML documents: one line, "Hello"
XmlPage ==
    [paragraphs |-> <<[lines |-> <<[words |-> <<[text |-> Hello, confidence |-> 75]>>]>>]>>,
     dimensions |-> PlainDimensions]

\* the start tags of the XML documents
StartTags ==
    { StartTag("html", {}, NoPage),
      StartTag("body", {}, NoPage),
      StartTag("div", {<<"class", "ocr_page">>}, XmlPage),
      StartTag("div", {<<"class", "ocr_carea">>}, NoPage),
      StartTag("span", {<<"class", "ocr_page">>}, NoPage) }

\* the sequences of n elements in all, each with the elements nested in it
Forests[n \in 0..MaxElements] ==
    IF n = 0 THEN {<<>>}
    ELSE UNION { { <<t>> \o inner \o <<EndTag(t.name)>> \o rest :
                     t \in StartTags, inner \in Forests[k - 1], rest \in Forests[n - k] }
                 : k \in 1..n }

\* the well-formed documents: one root element, of at most MaxElements elements
WellFormedDocs ==
    UNION { { <<t>> \o inner \o <<EndTag(t.name)>> : t \in StartTags, inner \in Forests[n - 1] }
            : n \in 1..MaxElements }

\* the documents: the well-formed ones, those cut before the end tag of the root,
\* and the empty file
XmlDocs ==
    WellFormedDocs \cup { SubSeq(d, 1, Len(d) - 1) : d \in WellFormedDocs } \cup {<<>>}

\* the length of an attribute in the file:  name="value", after a space
RECURSIVE AttrBytes(_)
AttrBytes(attrs) ==
    IF attrs = {} THEN 0
    ELSE LET a == CHOOSE x \in attrs : TRUE IN
         1 + Len(a[1]) + 2 + Len(a[2]) + 1 + AttrBytes(attrs \ {a})

\* the length of a tag in the file: <name attrs> or </name>
TagBytes(t) ==
    IF t.kind = "start" THEN 1 + Len(t.name) + AttrBytes(t.attrs) + 1
    ELSE 2 + Len(t.name) + 1

(***************************************************************************)
(* PageFinder and hocr_get_xml_page_offsets.                               *)
(***************************************************************************)
\* 'class' in attrs
HasAttr(attrs, key) == \E a \in attrs : a[1] = key

\* attrs['class']
AttrValue(attrs, key) == (CHOOSE a \in attrs : a[1] = key)[2]

\* start_element taking every div for a page
start_element_any_div(page_bytes, name, attrs, CurrentByteIndex) ==
    IF name = "div" THEN Append(page_bytes, CurrentByteIndex) ELSE page_bytes

\* PageFinder.start_element: page_bytes after the handler
start_element(page_bytes, name, attrs, CurrentByteIndex) ==
    IF name = "div" /\ HasAttr(attrs, "class") /\ AttrValue(attrs, "class") = "ocr_page"
    THEN Append(page_bytes, CurrentByteIndex)
    ELSE page_bytes

\* end_element recording the end of every element
end_element_every(page_bytes, name, CurrentByteIndex) ==
    Append(page_bytes, CurrentByteIndex)

\* PageFinder.end_element: page_bytes after the handler
end_element(page_bytes, name, CurrentByteIndex) ==
    IF name = "body" THEN Append(page_bytes, CurrentByteIndex) ELSE page_bytes

\* p.ParseFile(xml_file): the parser reads the tags from the stream's position on,
\* calls the handler of each with CurrentByteIndex at the first byte of the tag, and
\* raises on a tag that does not close the open element, on a tag after the root
\* element and on the end of the file with an element open or none seen.
RECURSIVE ParseFile(_, _, _, _, _, _)
ParseFile(data, i, CurrentByteIndex, open, closed, page_bytes) ==
    IF i > Len(data)
    THEN [ok |-> open = <<>> /\ closed, page_bytes |-> page_bytes]
    ELSE LET t == data[i] IN
         IF closed THEN [ok |-> FALSE, page_bytes |-> page_bytes]
         ELSE IF t.kind = "start"
         THEN ParseFile(data, i + 1, CurrentByteIndex + TagBytes(t),
                        <<t.name>> \o open, FALSE,
                        start_element(page_bytes, t.name, t.attrs, CurrentByteIndex))
         ELSE IF open = <<>> \/ Head(open) # t.name
         THEN [ok |-> FALSE, page_bytes |-> page_bytes]
         ELSE ParseFile(data, i + 1, CurrentByteIndex + TagBytes(t),
                        Tail(open), Len(open) = 1,
                        end_element(page_bytes, t.name, CurrentByteIndex))

\* seek without effect
seek_nowhere(f) == f

\* xml_file.seek(0)
seek_start(f) == [f EXCEPT !.pos = 0]

\* hocr_get_xml_page_offsets raising on fewer than two markers
xml_boundaries_strict(page_bytes) ==
    IF Len(page_bytes) < 2 THEN [status |-> "raised", value |-> <<>>]
    ELSE [status |-> "returned", value |-> zip_consecutive(page_bytes)]

\* xml_boundaries pairing the markers two by two
xml_boundaries_pairs(page_bytes) ==
    [status |-> "returned",
     value |-> [i \in 1..(Len(page_bytes) \div 2) |->
                  <<page_bytes[2 * i - 1], page_bytes[2 * i]>>]]

\* page_boundaries = list(zip(h.page_bytes[:-1], h.page_bytes[1:]))
xml_boundaries(page_bytes) ==
    [status |-> "returned", value |-> zip_consecutive(page_bytes)]

\* hocr_get_xml_page_offsets: the stream and what the call gives
hocr_get_xml_page_offsets(fd) ==
    LET f == seek_start(fd)
        h == ParseFile(f.data, f.pos + 1, 0, <<>>, FALSE, <<>>)
    IN  [file |-> [f EXCEPT !.pos = Len(f.data)],
         result |-> IF h.ok THEN xml_boundaries(h.page_bytes)
                    ELSE [status |-> "raised", value |-> <<>>]]

(***************************************************************************)
(* hocr_page_iterator, from its use: the pages of the ocr_page elements of *)
(* the document, in document order; on a document the parser rejects it    *)
(* raises once these are yielded.                                          *)
(***************************************************************************)
RECURSIVE hocr_page_iterator(_)
hocr_page_iterator(data) ==
    IF data = <<>> THEN <<>>
    ELSE LET t == Head(data) IN
         IF t.kind = "start" /\ t.name = "div" /\ <<"class", "ocr_page">> \in t.attrs
         THEN <<t.page>> \o hocr_page_iterator(Tail(data))
         ELSE hocr_page_iterator(Tail(data))

page_iterator_raises(data) == ~ParseFile(data, 1, 0, <<>>, FALSE, <<>>).ok

(***************************************************************************)
(* Actions of the offset indexers on one XML file.  The calls are          *)
(* synchronous: one call runs to its end before the next one starts.       *)
(***************************************************************************)
XmlInit ==
    /\ call = "offsets"
    /\ nodes = 0
    /\ npages = 0
    /\ src = <<>>
    /\ gen = gen_init
    /\ genF = gen_init
    /\ words = <<>>
    /\ wordsF = <<>>
    /\ plain = [plain_init EXCEPT !.pc = "idle"]
    /\ plainF = plain_init
    /\ \E d \in XmlDocs : \E p \in {0, 1, Len(d)} :
         /\ p <= Len(d)
         /\ xml_file = [data |-> d, pos |-> p]
    /\ xml_offsets = NoResult
    /\ xml_calls = 0
    /\ page_it = <<>>
    /\ plain_offsets = NoResult

\* no call of hocr_get_plaintext_page_offsets is running
NoPlainCall == plain.pc \in {"idle", "returned", "raised"}

XmlOffsetsReturn ==
    /\ call = "offsets"
    /\ NoPlainCall
    /\ hocr_get_xml_page_offsets(xml_file).result.status = "returned"
    /\ xml_file' = hocr_get_xml_page_offsets(xml_file).file
    /\ xml_offsets' = hocr_get_xml_page_offsets(xml_file).result
    /\ xml_calls' = IF xml_calls = 0 THEN 1 ELSE 2
    /\ UNCHANGED <<textvars, page_it, plain_offsets>>

XmlOffsetsRaise ==
    /\ call = "offsets"
    /\ NoPlainCall
    /\ hocr_get_xml_page_offsets(xml_file).result.status = "raised"
    /\ xml_file' = hocr_get_xml_page_offsets(xml_file).file
    /\ xml_offsets' = hocr_get_xml_page_offsets(xml_file).result
    /\ xml_calls' = IF xml_calls = 0 THEN 1 ELSE 2
    /\ UNCHANGED <<textvars, page_it, plain_offsets>>

\* hocr_get_plaintext_page_offsets is called on the file
XmlPlainCall ==
    /\ call = "offsets"
    /\ NoPlainCall
    /\ page_it' = hocr_page_iterator(xml_file.data)
    /\ plain' = plain_init
    /\ UNCHANGED <<call, nodes, npages, src, gen, genF, words, wordsF, plainF>>
    /\ UNCHANGED <<xml_file, xml_offsets, xml_calls, plain_offsets>>

XmlPlainIter ==
    /\ call = "offsets"
    /\ plain.pc = "loop"
    /\ page_it # <<>>
    /\ plain' = plain_iter(plain, Head(page_it))
    /\ page_it' = Tail(page_it)
    /\ UNCHANGED <<call, nodes, npages, src, gen, genF, words, wordsF, plainF>>
    /\ UNCHANGED <<xml_file, xml_offsets, xml_calls, plain_offsets>>

XmlPlainReturn ==
    /\ call = "offsets"
    /\ plain.pc = "loop"
    /\ page_it = <<>>
    /\ ~page_iterator_raises(xml_file.data)
    /\ plain' = plain_return(plain)
    /\ plain_offsets' = [status |-> "returned", value |-> plain_return(plain).result]
    /\ UNCHANGED <<call, nodes, npages, src, gen, genF, words, wordsF, plainF>>
    /\ UNCHANGED <<xml_file, xml_offsets, xml_calls, page_it>>

\* the error of the page iterator propagates
XmlPlainRaise ==
    /\ call = "offsets"
    /\ plain.pc = "loop"
    /\ page_it = <<>>
    /\ page_iterator_raises(xml_file.data)
    /\ plain' = [plain EXCEPT !.pc = "raised"]
    /\ plain_offsets' = [status |-> "raised", value |-> <<>>]
    /\ UNCHANGED <<call, nodes, npages, src, gen, genF, words, wordsF, plainF>>
    /\ UNCHANGED <<xml_file, xml_offsets, xml_calls, page_it>>

XmlNext ==
    \/ XmlOffsetsReturn
    \/ XmlOffsetsRaise
    \/ XmlPlainCall
    \/ XmlPlainIter
    \/ XmlPlainReturn
    \/ XmlPlainRaise

SpecXml == XmlInit /\ [][XmlNext]_vars

(***************************************************************************)
(* What the claims speak of, read off the document rather than off the     *)
(* frames of the functions.                                                *)
(***************************************************************************)
RECURSIVE AllParagraphs(_)
AllParagraphs(pages) ==
    IF pages = <<>> THEN <<>> ELSE Head(pages).paragraphs \o AllParagraphs(Tail(pages))

RECURSIVE AllLines(_)
AllLines(paragraphs) ==
    IF paragraphs = <<>> THEN <<>> ELSE Head(paragraphs).lines \o AllLines(Tail(paragraphs))

RECURSIVE AllWords(_)
AllWords(lines) ==
    IF lines = <<>> THEN <<>> ELSE Head(lines).words \o AllWords(Tail(lines))

\* the words of a sequence of paragraphs whose confidence is >= 75, in order
PassingWords(paragraphs) == SelectSeq(AllWords(AllLines(paragraphs)), KeepWord)

\* each word's text followed by one space
RECURSIVE SpacedText(_)
SpacedText(ws) ==
    IF ws = <<>> THEN <<>> ELSE Head(ws).text \o SP \o SpacedText(Tail(ws))

HasContent(paragraph) == PassingWords(<<paragraph>>) # <<>>

\* a string without its white space
Squeeze(s) == LET NotSpace(c) == ~IsSpace(c) IN SelectSeq(s, NotSpace)

\* the source paragraphs hocr_paragraphs has taken from its pages so far
Consumed ==
    LET all == AllParagraphs(src) IN SubSeq(all, 1, Len(all) - Len(gen.paragraphs))

\* the positions in ps of the content-bearing paragraphs
ContentIndices(ps) ==
    LET T(i) == HasContent(ps[i]) IN SelectSeq([i \in 1..Len(ps) |-> i], T)

\* the source paragraphs the i-th emission absorbs: those after the previous
\* content-bearing paragraph, up to and including the i-th one
Absorbed(i) ==
    LET c == ContentIndices(Consumed) IN
    SubSeq(Consumed, (IF i = 1 THEN 0 ELSE c[i - 1]) + 1, c[i])

RECURSIVE YieldedTexts(_)
YieldedTexts(ys) ==
    IF ys = <<>> THEN <<>> ELSE Head(ys).text \o YieldedTexts(Tail(ys))

RECURSIVE YieldedLines(_)
YieldedLines(ys) ==
    IF ys = <<>> THEN <<>> ELSE Head(ys).paragraph.lines \o YieldedLines(Tail(ys))

(***************************************************************************)
(* C1.  A word contributes to the page text, to the paragraph text, to the *)
(* text of every yielded tuple and to get_hocr_words if and only if its    *)
(* confidence is >= 75, and every output equals the output on the same     *)
(* input with the words of confidence < 75 removed.                        *)
(***************************************************************************)
ConfidenceFilter ==
    /\ gen.text = genF.text
    /\ Len(gen.yielded) = Len(genF.yielded)
    /\ \A i \in 1..Len(gen.yielded) :
         /\ gen.yielded[i].text = genF.yielded[i].text
         /\ gen.yielded[i].text = SpacedText(PassingWords(<<gen.yielded[i].paragraph>>))
    /\ words = wordsF
    /\ \A i \in 1..Len(words) : words[i] = PassingWords(<<gen.yielded[i].paragraph>>)
    /\ gen.pc = "done" =>
         YieldedTexts(gen.yielded) = SpacedText(PassingWords(AllParagraphs(src)))
    /\ plain.page_text = plainF.page_text
    /\ plain.page_bytes = plainF.page_bytes
    /\ plain.result = plainF.result
    /\ Squeeze(plain.page_text) = Squeeze(SpacedText(PassingWords(plain.page.paragraphs)))

\* a yielded paragraph with a word of confidence 74 and a word of confidence 75,
\* whose words the consumer has taken
ConfidenceFilterWitness ==
    \E i \in 1..Len(words) :
      LET ws == AllWords(gen.yielded[i].paragraph.lines) IN
      /\ \E n \in 1..Len(ws) : ws[n].confidence = 74
      /\ \E n \in 1..Len(ws) : ws[n].confidence = 75
      /\ Len(words[i]) < Len(ws)

(***************************************************************************)
(* C2.  hocr_get_plaintext_page_offsets returns one (start, end) pair per  *)
(* page, in page order; the first pair starts at 0, start <= end, and the  *)
(* end of each pair is the start of the next.                              *)
(***************************************************************************)
PlaintextOffsetsContiguous ==
    call = "hocr_get_plaintext_page_offsets" =>
    /\ plain.pc = "loop" =>
         /\ Len(plain.page_bytes) = npages + 1
         /\ npages > 0 =>
              plain.page_bytes[npages + 1] - plain.page_bytes[npages]
                = Len(hocr_page_text(plain.page))
    /\ plain.pc = "returned" =>
         /\ Len(plain.result) = npages
         /\ npages > 0 => plain.result[1][1] = 0
         /\ \A i \in 1..Len(plain.result) :
              /\ plain.result[i][1] <= plain.result[i][2]
              /\ plain.result[i] = <<plain.page_bytes[i], plain.page_bytes[i + 1]>>
         /\ \A i \in 1..(Len(plain.result) - 1) :
              plain.result[i][2] = plain.result[i + 1][1]

\* three pages returned, the second one with text
PlaintextOffsetsWitness ==
    /\ plain.pc = "returned"
    /\ Len(plain.result) = 3
    /\ plain.result[2][1] < plain.result[2][2]

(***************************************************************************)
(* C4.  The lines of every emitted paragraph are the lines, in document    *)
(* order, of the source paragraphs it absorbs (the pending ones since the  *)
(* previous emission, then the current one); the lines of all emitted      *)
(* paragraphs together are the lines of all source paragraphs up to the    *)
(* last content-bearing one.                                               *)
(***************************************************************************)
LinePreservation ==
    LET c == ContentIndices(Consumed) IN
    /\ Len(gen.yielded) = Len(c)
    /\ \A i \in 1..Len(gen.yielded) :
         gen.yielded[i].paragraph.lines = AllLines(Absorbed(i))
    /\ YieldedLines(gen.yielded)
         = AllLines(SubSeq(Consumed, 1, IF c = <<>> THEN 0 ELSE c[Len(c)]))

\* an emission that merges a pending paragraph having lines with the current one
LinePreservationWitness ==
    /\ gen.pc = "yield"
    /\ Len(Absorbed(Len(gen.yielded))) = 2
    /\ Absorbed(Len(gen.yielded))[1].lines # <<>>

(***************************************************************************)
(* C5.  The run P1 (content "Hello"), P2 (no word passes), P3 (content     *)
(* "World").                                                               *)
(***************************************************************************)
\* hocr_paragraphs has taken exactly P1, P2, P3
MergeScenario ==
    /\ Len(Consumed) = 3
    /\ PassingWords(<<Consumed[1]>>) = <<[text |-> Hello, confidence |-> 75]>>
    /\ PassingWords(<<Consumed[2]>>) = <<>>
    /\ PassingWords(<<Consumed[3]>>) = <<[text |-> World, confidence |-> 75]>>

EmissionCount ==
    LET c == ContentIndices(Consumed) IN
    /\ Len(gen.yielded) = Len(c)
    /\ \A i \in 1..Len(gen.yielded) :
         gen.yielded[i].text = SpacedText(PassingWords(<<Consumed[c[i]]>>))
    /\ gen.pc = "done" =>
         gen.ps = SubSeq(Consumed, (IF c = <<>> THEN 0 ELSE c[Len(c)]) + 1, Len(Consumed))

\* the generator has returned after two emissions with a paragraph still pending
EmissionCountWitness ==
    /\ gen.pc = "done"
    /\ Len(gen.yielded) = 2
    /\ gen.ps # <<>>

(***************************************************************************)
(* C7.  For every page, end - start of its plaintext pair is the length in *)
(* bytes of the UTF-8 encoding of hocr_page_text(page).                    *)
(***************************************************************************)
PlaintextOffsetsByteAccurate ==
    call = "hocr_get_plaintext_page_offsets" =>
    /\ (plain.pc = "loop" /\ npages > 0) =>
         plain.page_bytes[npages + 1] - plain.page_bytes[npages]
           = Len(encode(hocr_page_text(plain.page)))
    /\ (plain.pc = "returned" /\ npages > 0) =>
         plain.result[npages][2] - plain.result[npages][1]
           = Len(encode(hocr_page_text(plain.page)))

(***************************************************************************)
(* The XML file as the claims speak of it.                                 *)
(***************************************************************************)
IsPageStart(t) == t.kind = "start" /\ t.name = "div" /\ <<"class", "ocr_page">> \in t.attrs

IsBodyEnd(t) == t.kind = "end" /\ t.name = "body"

\* the positions in data of the tags that satisfy Test
TagIndices(data, Test(_)) ==
    LET T(i) == Test(data[i]) IN SelectSeq([i \in 1..Len(data) |-> i], T)

PageStarts == TagIndices(xml_file.data, IsPageStart)

BodyEnds == TagIndices(xml_file.data, IsBodyEnd)

\* the byte offset in the file of its i-th tag
RECURSIVE TagOffset(_, _)
TagOffset(data, i) ==
    IF i <= 1 THEN 0 ELSE TagOffset(data, i - 1) + TagBytes(data[i - 1])

WellFormed == xml_file.data \in WellFormedDocs

(***************************************************************************)
(* C3.  On a document with at least one page, hocr_get_xml_page_offsets    *)
(* and hocr_get_plaintext_page_offsets return lists of the same length.    *)
(***************************************************************************)
\* C3 as claimed: whatever page starts and body ends the document has
SameCardinalityAsClaimed ==
    (/\ xml_offsets.status = "returned"
     /\ plain_offsets.status = "returned"
     /\ Len(PageStarts) >= 1)
    => Len(xml_offsets.value) = Len(plain_offsets.value)

\* C3 for the documents with exactly one body end tag: both lists have one entry
\* per ocr_page element
SameCardinalityOneBody ==
    (/\ xml_offsets.status = "returned"
     /\ plain_offsets.status = "returned"
     /\ Len(PageStarts) >= 1
     /\ Len(BodyEnds) = 1)
    => /\ Len(xml_offsets.value) = Len(plain_offsets.value)
       /\ Len(xml_offsets.value) = Len(PageStarts)

\* both indexers have returned on a document of two pages and one body
SameCardinalityWitness ==
    /\ xml_offsets.status = "returned"
    /\ plain_offsets.status = "returned"
    /\ Len(PageStarts) = 2
    /\ Len(BodyEnds) = 1

(***************************************************************************)
(* C8.  Page i's XML range runs from the offset of its opening tag to the  *)
(* offset of the opening tag of page i+1, or to a body end tag for the     *)
(* last page; start < end in every range, the starts increase strictly and *)
(* the ranges do not overlap.                                              *)
(***************************************************************************)
\* start < end, starts strictly increasing, end[i] <= start[i + 1]
XmlRangesOrdered ==
    /\ \A i \in 1..Len(xml_offsets.value) : xml_offsets.value[i][1] < xml_offsets.value[i][2]
    /\ \A i \in 1..(Len(xml_offsets.value) - 1) :
         /\ xml_offsets.value[i][1] < xml_offsets.value[i + 1][1]
         /\ xml_offsets.value[i][2] <= xml_offsets.value[i + 1][1]

\* range i is that of the i-th ocr_page element
XmlRangesOfPages ==
    \A i \in 1..Len(PageStarts) :
      /\ i <= Len(xml_offsets.value)
      /\ xml_offsets.value[i][1] = TagOffset(xml_file.data, PageStarts[i])
      /\ IF i < Len(PageStarts)
         THEN xml_offsets.value[i][2] = TagOffset(xml_file.data, PageStarts[i + 1])
         ELSE \E b \in 1..Len(BodyEnds) :
                xml_offsets.value[i][2] = TagOffset(xml_file.data, BodyEnds[b])

\* C8 as claimed: for every well-formed document
XmlRangesAsClaimed ==
    xml_offsets.status = "returned" => (XmlRangesOfPages /\ XmlRangesOrdered)

\* the document has a body end tag, and none before the start tag of a page
BodyEndsAfterPages ==
    /\ BodyEnds # <<>>
    /\ \A b \in 1..Len(BodyEnds) : \A i \in 1..Len(PageStarts) : PageStarts[i] < BodyEnds[b]

\* C8 for the documents whose body end tags all follow the start tags of the
\* pages; the order of the ranges holds of every document
XmlRangesAmended ==
    xml_offsets.status = "returned" =>
      /\ XmlRangesOrdered
      /\ BodyEndsAfterPages => XmlRangesOfPages

\* two pages in a body, and their two ranges
XmlRangesWitness ==
    /\ xml_offsets.status = "returned"
    /\ BodyEndsAfterPages
    /\ Len(PageStarts) = 2
    /\ Len(xml_offsets.value) = 2

(***************************************************************************)
(* C9.  On a document without pages both indexers return an empty list and *)
(* do not raise; hocr_get_xml_page_offsets returns an empty list whenever  *)
(* fewer than two markers are recorded.                                    *)
(***************************************************************************)
\* C9 as claimed, of the documents the parser accepts: no page, no range
EmptyOffsetsAsClaimed ==
    /\ (/\ xml_offsets.status # "none"
        /\ WellFormed
        /\ (Len(PageStarts) = 0 \/ Len(PageStarts) + Len(BodyEnds) < 2))
       => xml_offsets = [status |-> "returned", value |-> <<>>]
    /\ (/\ plain_offsets.status # "none"
        /\ WellFormed
        /\ Len(PageStarts) = 0)
       => plain_offsets = [status |-> "returned", value |-> <<>>]

\* C9 for the documents with fewer than two markers: a document without pages
\* and with at most one body end tag, or with one page and no body end tag
EmptyOffsets ==
    /\ (/\ xml_offsets.status # "none"
        /\ WellFormed
        /\ Len(PageStarts) + Len(BodyEnds) < 2)
       => xml_offsets = [status |-> "returned", value |-> <<>>]
    /\ (/\ plain_offsets.status # "none"
        /\ WellFormed
        /\ Len(PageStarts) = 0)
       => plain_offsets = [status |-> "returned", value |-> <<>>]

\* both indexers have been run on a well-formed document without pages
EmptyOffsetsWitness ==
    /\ xml_offsets.status # "none"
    /\ plain_offsets.status # "none"
    /\ WellFormed
    /\ Len(PageStarts) = 0
    /\ Len(BodyEnds) < 2

(***************************************************************************)
(* C10.  A further run of either indexer on the same file gives what the   *)
(* run before gave, and hocr_get_xml_page_offsets gives what it gives on   *)
(* the stream at position 0, wherever the stream stood before the call.    *)
(***************************************************************************)
OffsetsIdempotent ==
    /\ [](xml_offsets.status # "none" =>
            xml_offsets = hocr_get_xml_page_offsets([xml_file EXCEPT !.pos = 0]).result)
    /\ [][/\ xml_offsets.status # "none" => xml_offsets' = xml_offsets
          /\ plain_offsets.status # "none" => plain_offsets' = plain_offsets]_vars

\* hocr_get_xml_page_offsets has run twice on the stream and returned ranges
OffsetsIdempotentWitness ==
    /\ xml_calls = 2
    /\ xml_offsets.status = "returned"
    /\ xml_offsets.value # <<>>
    /\ xml_file.pos = Len(xml_file.data)

(***************************************************************************)
(* The pages of hocr_paragraphs as the claims speak of them.               *)
(***************************************************************************)
\* the number of paragraphs of the first n pages of src
RECURSIVE ParagraphsBefore(_)
ParagraphsBefore(n) ==
    IF n = 0 THEN 0 ELSE ParagraphsBefore(n - 1) + Len(src[n].paragraphs)

\* the position in src of the page that holds the k-th source paragraph
ParagraphPage(k) ==
    CHOOSE p \in 1..Len(src) : ParagraphsBefore(p - 1) < k /\ k <= ParagraphsBefore(p)

\* the paragraphs the i-th emission absorbs that are of the page of its last one
AbsorbedOfPage(i) ==
    LET c == ContentIndices(Consumed)
        first == (IF i = 1 THEN 0 ELSE c[i - 1]) + 1
        own == ParagraphsBefore(ParagraphPage(c[i]) - 1) + 1
    IN  SubSeq(Consumed, IF first > own THEN first ELSE own, c[i])

(***************************************************************************)
(* C11.  hocr_paragraphs retains no paragraph across pages: while a page   *)
(* is iterated the pending buffer holds paragraphs of that page only, and  *)
(* the lines of every emitted paragraph are lines of paragraphs of the     *)
(* page whose index the tuple reports.                                     *)
(***************************************************************************)
NoParagraphAcrossPages ==
    call = "hocr_paragraphs" =>
    /\ gen.pc = "paragraphs" =>
         Len(gen.ps) <= Len(src[Len(src)].paragraphs) - Len(gen.paragraphs)
    /\ \A i \in 1..Len(gen.yielded) :
         gen.yielded[i].paragraph.lines = AllLines(AbsorbedOfPage(i))

(***************************************************************************)
(* C12.  The page index of every emitted tuple is the zero-based position  *)
(* in hocr_iter of the page of the content-bearing paragraph that caused   *)
(* the emission, width and height are the dimensions of that page, the     *)
(* index grows by one at the end of every page, and the indices of         *)
(* successive emissions never decrease.                                    *)
(***************************************************************************)
PageIndexTracking ==
    LET c == ContentIndices(Consumed) IN
    call = "hocr_paragraphs" =>
    /\ Len(gen.yielded) = Len(c)
    /\ \A i \in 1..Len(gen.yielded) :
         LET page == ParagraphPage(c[i]) IN
         /\ gen.yielded[i].page_no = page - 1
         /\ gen.yielded[i].page_width = src[page].dimensions[1]
         /\ gen.yielded[i].page_height = src[page].dimensions[2]
    /\ gen.page_no = (IF gen.pc \in {"paragraphs", "yield"} THEN Len(src) - 1 ELSE Len(src))
    /\ \A i \in 1..(Len(gen.yielded) - 1) :
         gen.yielded[i].page_no <= gen.yielded[i + 1].page_no

\* an emission on the third page, of other dimensions than the first, after a
\* page without paragraphs
PageIndexWitness ==
    /\ gen.pc = "yield"
    /\ Len(src) = 3
    /\ src[2].paragraphs = <<>>
    /\ src[1].dimensions # src[3].dimensions
    /\ gen.yielded[Len(gen.yielded)].page_no = 2

(***************************************************************************)
(* The page text as the claims speak of it.                                *)
(***************************************************************************)
\* the texts of the words joined by single spaces
RECURSIVE JoinWords(_)
JoinWords(ws) ==
    IF ws = <<>> THEN <<>>
    ELSE IF Len(ws) = 1 THEN Head(ws).text
    ELSE Head(ws).text \o SP \o JoinWords(Tail(ws))

\* the passing words of a line joined by single spaces, trimmed
LineText(line) == strip(JoinWords(SelectSeq(line.words, KeepWord)))

\* every non-empty line text, preceded by one space
RECURSIVE SpacedLines(_)
SpacedLines(lines) ==
    IF lines = <<>> THEN <<>>
    ELSE (IF LineText(Head(lines)) = <<>> THEN <<>> ELSE SP \o LineText(Head(lines)))
         \o SpacedLines(Tail(lines))

\* the spaced lines of each paragraph, and a newline after those of a paragraph
\* that has content
RECURSIVE ParagraphsText(_)
ParagraphsText(paragraphs) ==
    IF paragraphs = <<>> THEN <<>>
    ELSE SpacedLines(Head(paragraphs).lines)
         \o (IF HasContent(Head(paragraphs)) THEN NL ELSE <<>>)
         \o ParagraphsText(Tail(paragraphs))

\* hocr_get_plaintext_page_offsets has taken the text of a page
PageTextTaken == call = "hocr_get_plaintext_page_offsets" /\ npages > 0

(***************************************************************************)
(* C13.  hocr_page_text gives the non-empty trimmed line texts (passing    *)
(* words joined by single spaces), each preceded by one space, and a       *)
(* newline; a page in which no word passes gives the empty string.         *)
(***************************************************************************)
\* C13 as claimed: one newline, at the end of the text of a page with content
PageTextOneNewline ==
    PageTextTaken =>
      plain.page_text
        = SpacedLines(AllLines(plain.page.paragraphs))
          \o (IF PassingWords(plain.page.paragraphs) # <<>> THEN NL ELSE <<>>)

\* C13 with a newline after the lines of every paragraph that has content
PageTextFormat ==
    PageTextTaken =>
      /\ plain.page_text = ParagraphsText(plain.page.paragraphs)
      /\ PassingWords(plain.page.paragraphs) = <<>> => plain.page_text = <<>>

\* the text of a page of two paragraphs with content
PageTextWitness ==
    /\ PageTextTaken
    /\ Len(ContentIndices(plain.page.paragraphs)) = 2

(***************************************************************************)
(* C14.  The pending buffer of hocr_paragraphs holds only paragraphs       *)
(* without content, in document order, all of them after the most recent   *)
(* emission; it is empty after every emission; and text is always the      *)
(* empty string.                                                           *)
(***************************************************************************)
\* the source paragraphs taken after the last content-bearing one
PendingExpected ==
    LET c == ContentIndices(Consumed) IN
    SubSeq(Consumed, (IF c = <<>> THEN 0 ELSE c[Len(c)]) + 1, Len(Consumed))

\* C14 as claimed: in every reachable state
PendingBufferAsClaimed ==
    call = "hocr_paragraphs" =>
    /\ \A i \in 1..Len(gen.ps) : ~HasContent(gen.ps[i])
    /\ gen.ps = PendingExpected
    /\ gen.text = <<>>

\* C14 for the states in which the generator is not suspended at its yield; at
\* the yield the buffer is empty or holds what the emitted paragraph merges
PendingBufferInvariant ==
    call = "hocr_paragraphs" =>
    /\ gen.pc # "yield" =>
         /\ \A i \in 1..Len(gen.ps) : ~HasContent(gen.ps[i])
         /\ gen.ps = PendingExpected
    /\ gen.pc = "yield" =>
         \/ gen.ps = <<>>
         \/ gen.ps = Absorbed(Len(gen.yielded))
    /\ gen.text = <<>>

\* a paragraph is pending after the emission of a merged paragraph
PendingBufferWitness ==
    /\ gen.pc = "paragraphs"
    /\ gen.ps # <<>>
    /\ Len(gen.yielded) = 1
    /\ Len(Absorbed(1)) = 2

(***************************************************************************)
(* C15.  For every emitted tuple, hocr_paragraph_text of the emitted       *)
(* paragraph is (text, True), text is the text of each word of             *)
(* get_hocr_words of the emitted paragraph followed by one space, and both *)
(* are those of the paragraph that caused the emission taken alone.        *)
(***************************************************************************)
TextParagraphConsistency ==
    LET c == ContentIndices(Consumed) IN
    call = "hocr_paragraphs" =>
    /\ Len(gen.yielded) = Len(c)
    /\ \A i \in 1..Len(gen.yielded) :
         /\ hocr_paragraph_text(gen.yielded[i].paragraph) = <<gen.yielded[i].text, TRUE>>
         /\ gen.yielded[i].text = SpacedText(get_hocr_words(gen.yielded[i].paragraph))
         /\ get_hocr_words(gen.yielded[i].paragraph) = get_hocr_words(Consumed[c[i]])
         /\ hocr_paragraph_text(Consumed[c[i]]) = <<gen.yielded[i].text, TRUE>>

\* a merged paragraph whose pending part has a word below the threshold
TextParagraphWitness ==
    /\ gen.pc = "yield"
    /\ Len(Absorbed(Len(gen.yielded))) = 2
    /\ AllWords(Absorbed(Len(gen.yielded))[1].lines) # <<>>

(***************************************************************************)
(* C16.  The ranges hocr_get_xml_page_offsets returns are contiguous: the  *)
(* end of range i is the start of range i + 1, range i runs from the i-th  *)
(* recorded marker to the next, page start or body end alike, and there    *)
(* are max(0, markers - 1) ranges.                                         *)
(***************************************************************************)
IsMarker(t) == IsPageStart(t) \/ IsBodyEnd(t)

Markers == TagIndices(xml_file.data, IsMarker)

XmlRangesContiguous ==
    xml_offsets.status = "returned" =>
      /\ Len(xml_offsets.value) = (IF Len(Markers) = 0 THEN 0 ELSE Len(Markers) - 1)
      /\ \A i \in 1..Len(xml_offsets.value) :
           xml_offsets.value[i] = <<TagOffset(xml_file.data, Markers[i]),
                                    TagOffset(xml_file.data, Markers[i + 1])>>
      /\ \A i \in 1..(Len(xml_offsets.value) - 1) :
           xml_offsets.value[i][2] = xml_offsets.value[i + 1][1]

\* two ranges, the first from a body end tag to the start tag of a page
XmlRangesContiguousWitness ==
    /\ xml_offsets.status = "returned"
    /\ Len(xml_offsets.value) = 2
    /\ IsBodyEnd(xml_file.data[Markers[1]])
    /\ IsPageStart(xml_file.data[Markers[2]])

=============================================================================
